---- MODULE Spec2Model ----
(***************************************************************************)
(* Scheduled-task / notification execution core of the room-booking        *)
(* backend: door-access validation, power-off scheduling and execution,    *)
(* reminder tasks and notification delivery.                               *)
(*                                                                         *)
(* Time is counted in clock ticks; TicksPerSec ticks make one second, so   *)
(* that the truncation done by int(datetime.timestamp()) is visible.       *)
(* Booking start_time / end_time are whole epoch seconds.                  *)
(***************************************************************************)
EXTENDS Integers, Sequences, FiniteSets, TLC

\* ---------------------------------------------------------------- bounds
TicksPerSec == 2
MaxBookings == 2
MaxUsers == 2
MaxRooms == 2
MaxSlot == 1
T0 == 7200
SlotLen == 1800
MaxAudit == 2
MaxNotifications == 1
MaxMaxRetries == 3
MaxAttempts == 4
MaxTasks == 2

\* ------------------------------------------------------ program constants
OneHour == 3600
PowerOffBuffer == 2400

BookingIds == 1..MaxBookings
UserIds == 1..MaxUsers
RoomIds == 1..MaxRooms
BookingStatusEnum == {"pending", "confirmed", "using", "completed", "cancelled"}

VARIABLES
    now,         \* wall clock, in ticks
    rooms,       \* ids of the rows of table rooms
    bookings,    \* table bookings: id -> row
    access,      \* the last answer of validate_door_access
    po_running,  \* TaskScheduler.scheduler is started
    po_jobs,     \* jobs of TaskScheduler.scheduler (tentative while stopped)
    po_call,     \* the schedule/cancel call in progress on the request thread
    po_tasks,    \* table power_off_tasks: <<booking_id, room_id>> -> row
    audit,       \* table power_off_audit_log, in insertion order
    ret,         \* outcome of the last completed operation
    po_scheduled,\* history: ids a schedule_power_off call has registered
    users,       \* ids of the rows of table users
    notifications, \* table booking_notifications: id -> row
    nhist,       \* history: per notification, failed and successful deliveries
    tasks,       \* table scheduled_tasks: id -> row
    ts_up,       \* the TaskSchedulerService of startup_event is running
    ts_jobs,     \* date jobs in its in-memory job store
    runs,        \* history: per task row, runs of the reminder callback
    ts_active,   \* reminder callbacks in progress
    peer_up,     \* a second process of the application is running
    peer_jobs    \* date jobs in the job store of that process

doorVars == <<rooms, bookings, access>>
poVars == <<po_running, po_jobs, po_call, po_tasks, audit, ret,
           po_scheduled>>
ntVars == <<users, notifications, nhist>>
poVarsNoRet == <<po_running, po_jobs, po_call, po_tasks, audit, po_scheduled>>
vars == <<now, rooms, bookings, access,
          po_running, po_jobs, po_call, po_tasks, audit, ret,
          po_scheduled, users, notifications, nhist,
          tasks, ts_up, ts_jobs, runs, ts_active, peer_up, peer_jobs>>
tsVars == <<tasks, ts_up, ts_jobs, runs, ts_active, peer_up, peer_jobs>>
peerVars == <<peer_up, peer_jobs>>

\* ------------------------------------------------------------ time helpers
\* int(datetime.timestamp()): whole seconds of a tick count
IntTimestamp(t) == t \div TicksPerSec

\* datetime.fromtimestamp(): a whole-second timestamp as a tick count
FromTimestamp(s) == s * TicksPerSec

\* ---------------------------------------------------------- door validator
NoBooking == 0

\* rows of the query's filter: Booking JOIN Room, user, CONFIRMED, window, room
ValidBookingRowsStatusBlind(u, d, t) ==
    {b \in DOMAIN bookings :
        /\ bookings[b].room_id \in rooms
        /\ bookings[b].user_id = u
        /\ bookings[b].start_time <= IntTimestamp(t + FromTimestamp(OneHour))
        /\ bookings[b].end_time >= IntTimestamp(t)
        /\ bookings[b].room_id = d}

ValidBookingRows(u, d, t) ==
    {b \in DOMAIN bookings :
        /\ bookings[b].room_id \in rooms
        /\ bookings[b].user_id = u
        /\ bookings[b].status = "confirmed"
        /\ bookings[b].start_time <= IntTimestamp(t + FromTimestamp(OneHour))
        /\ bookings[b].end_time >= IntTimestamp(t)
        /\ bookings[b].room_id = d}

\* .first() without ORDER BY: any matching row, or none when there is none
FirstRows(S) == IF S = {} THEN {NoBooking} ELSE S

\* the decision taken on the row the query returned
Decide(first, t) ==
    IF first = NoBooking
    THEN [valid |-> FALSE, reason |-> "no_booking", booking |-> NoBooking]
    ELSE IF t < FromTimestamp(bookings[first].start_time) - FromTimestamp(OneHour)
    THEN [valid |-> FALSE, reason |-> "too_early", booking |-> NoBooking]
    ELSE IF t > FromTimestamp(bookings[first].end_time)
    THEN [valid |-> FALSE, reason |-> "expired", booking |-> NoBooking]
    ELSE [valid |-> TRUE, reason |-> "ok", booking |-> first]

\* the results validate_door_access(u, d) can return at time t
validate_door_access(u, d, t) ==
    {Decide(first, t) : first \in FirstRows(ValidBookingRows(u, d, t))}

NoAccess == [called |-> FALSE, user |-> 0, door |-> 0,
             valid |-> FALSE, reason |-> "none", booking |-> NoBooking]

\* ------------------------------------------------- power-off: job registry
max_retries == 3
DefaultMaxRetries == 3
SecondsPerDay == 86400
misfire_grace_time == 30

NoCall == [op |-> "none", booking_id |-> 0, room_id |-> 0, run_at |-> 0,
           pc |-> "idle", found |-> {}]
NoRet == [op |-> "none", booking_id |-> 0, room_id |-> 0, value |-> "none",
          contacts |-> 0, rows |-> 0, all_failed |-> FALSE,
          valid |-> FALSE, relay_ok |-> FALSE, arg |-> 0, count |-> 0,
          fault |-> "none"]

Job(b, r, t) == [booking_id |-> b, room_id |-> r, run_at |-> t]

\* scheduler.get_job(job_id): the jobs registered under power_off_{b}_{r}
get_job(jobs, b, r) == {j \in jobs : j.booking_id = b /\ j.room_id = r}

\* scheduler.remove_job(job_id): the registries left after removing one job
\* of that id; empty when there is none (JobLookupError)
remove_job(jobs, b, r) == {jobs \ {j} : j \in get_job(jobs, b, r)}

\* scheduler.add_job(..., id=job_id, replace_existing=True): a started
\* scheduler replaces the stored job of that id, a stopped one appends the
\* job to its tentative list
add_job(jobs, running, j) ==
    IF running
    THEN (jobs \ get_job(jobs, j.booking_id, j.room_id)) \cup {j}
    ELSE jobs \cup {j}

JobKeys(jobs) == {<<j.booking_id, j.room_id>> : j \in jobs}

\* the state of the module-level TaskScheduler() and of empty power-off tables
PoIdle ==
    /\ po_running = FALSE
    /\ po_jobs = {}
    /\ po_call = NoCall
    /\ po_tasks = <<>>
    /\ audit = <<>>
    /\ ret = NoRet
    /\ po_scheduled = {}

\* no notification exists; no task row, the process is not up
NtIdle ==
    /\ users = UserIds
    /\ notifications = <<>>
    /\ nhist = <<>>
    /\ tasks = <<>>
    /\ ts_up = FALSE
    /\ ts_jobs = {}
    /\ runs = <<>>
    /\ ts_active = {}
    /\ peer_up = FALSE
    /\ peer_jobs = {}

\* TaskScheduler.start(): the tentative jobs enter the job store, a later one
\* replacing an earlier one of the same id
PO_Start ==
    /\ ~po_running
    /\ po_running' = TRUE
    /\ \E S \in SUBSET po_jobs :
          /\ JobKeys(S) = JobKeys(po_jobs)
          /\ \A j \in S : get_job(S, j.booking_id, j.room_id) = {j}
          /\ po_jobs' = S
    /\ ret' = NoRet
    /\ UNCHANGED <<now, rooms, bookings, access, po_call, po_tasks, audit,
                   po_scheduled>>
    /\ UNCHANGED ntVars
    /\ UNCHANGED tsVars

\* TaskScheduler.schedule_power_off, first step: scheduler.get_job(job_id)
ScheduleGet(b, r, t) ==
    /\ po_call = NoCall
    /\ po_call' = [op |-> "schedule", booking_id |-> b, room_id |-> r,
                   run_at |-> t,
                   pc |-> IF get_job(po_jobs, b, r) # {} THEN "remove" ELSE "add",
                   found |-> get_job(po_jobs, b, r)]
    /\ ret' = NoRet
    /\ UNCHANGED <<now, rooms, bookings, access, po_running, po_jobs,
                   po_tasks, audit, po_scheduled>>
    /\ UNCHANGED ntVars
    /\ UNCHANGED tsVars

\* second step: scheduler.remove_job(job_id); JobLookupError is re-raised
ScheduleRemove ==
    /\ po_call.op = "schedule" /\ po_call.pc = "remove"
    /\ LET b == po_call.booking_id
           r == po_call.room_id
       IN IF remove_job(po_jobs, b, r) # {}
          THEN /\ po_jobs' \in remove_job(po_jobs, b, r)
               /\ po_call' = [po_call EXCEPT !.pc = "add"]
               /\ ret' = NoRet
          ELSE /\ po_jobs' = po_jobs
               /\ po_call' = NoCall
               /\ ret' = [NoRet EXCEPT !.op = "schedule", !.booking_id = b,
                                       !.room_id = r, !.value = "raised"]
    /\ UNCHANGED <<now, rooms, bookings, access, po_running, po_tasks, audit,
                   po_scheduled>>
    /\ UNCHANGED ntVars
    /\ UNCHANGED tsVars

\* last step: scheduler.add_job(...); returns the job id
ScheduleAdd ==
    /\ po_call.op = "schedule" /\ po_call.pc = "add"
    /\ po_jobs' = add_job(po_jobs, po_running,
                          Job(po_call.booking_id, po_call.room_id, po_call.run_at))
    /\ po_call' = NoCall
    /\ ret' = [NoRet EXCEPT !.op = "schedule",
                            !.booking_id = po_call.booking_id,
                            !.room_id = po_call.room_id, !.value = "job_id"]
    /\ po_scheduled' = po_scheduled \cup {<<po_call.booking_id, po_call.room_id>>}
    /\ UNCHANGED <<now, rooms, bookings, access, po_running, po_tasks, audit>>
    /\ UNCHANGED ntVars
    /\ UNCHANGED tsVars

\* TaskScheduler.cancel_power_off, first step: scheduler.get_job(job_id)
CancelGet(b, r) ==
    /\ po_call = NoCall
    /\ po_call' = [op |-> "cancel", booking_id |-> b, room_id |-> r,
                   run_at |-> 0,
                   pc |-> IF get_job(po_jobs, b, r) # {} THEN "remove" ELSE "absent",
                   found |-> get_job(po_jobs, b, r)]
    /\ ret' = NoRet
    /\ UNCHANGED <<now, rooms, bookings, access, po_running, po_jobs,
                   po_tasks, audit, po_scheduled>>
    /\ UNCHANGED ntVars
    /\ UNCHANGED tsVars

\* second step: remove_job and return True; False when the job was not
\* found or remove_job raised
CancelFinishKeep ==
    /\ po_call.op = "cancel"
    /\ LET b == po_call.booking_id
           r == po_call.room_id
       IN /\ po_jobs' = po_jobs
          /\ ret' = [NoRet EXCEPT !.op = "cancel", !.booking_id = b,
                          !.room_id = r,
                          !.value = IF po_call.pc = "remove" /\ get_job(po_jobs, b, r) # {}
                                    THEN "true" ELSE "false"]
    /\ po_call' = NoCall
    /\ UNCHANGED <<now, rooms, bookings, access, po_running, po_tasks, audit,
                   po_scheduled>>
    /\ UNCHANGED ntVars
    /\ UNCHANGED tsVars

CancelFinish ==
    /\ po_call.op = "cancel"
    /\ LET b == po_call.booking_id
           r == po_call.room_id
       IN IF po_call.pc = "remove" /\ remove_job(po_jobs, b, r) # {}
          THEN /\ po_jobs' \in remove_job(po_jobs, b, r)
               /\ ret' = [NoRet EXCEPT !.op = "cancel", !.booking_id = b,
                                       !.room_id = r, !.value = "true"]
          ELSE /\ po_jobs' = po_jobs
               /\ ret' = [NoRet EXCEPT !.op = "cancel", !.booking_id = b,
                                       !.room_id = r, !.value = "false"]
    /\ po_call' = NoCall
    /\ UNCHANGED <<now, rooms, bookings, access, po_running, po_tasks, audit,
                   po_scheduled>>
    /\ UNCHANGED ntVars
    /\ UNCHANGED tsVars

\* ---------------------------------------------------------------- Init
Slots == 0..MaxSlot
SlotStart(k) == T0 + k * SlotLen

BookingRows ==
    [user_id : UserIds, room_id : RoomIds, slot : Slots,
     status : {"pending", "confirmed", "cancelled"}]

MkBooking(r) ==
    [user_id |-> r.user_id, room_id |-> r.room_id,
     start_time |-> SlotStart(r.slot), end_time |-> SlotStart(r.slot) + SlotLen,
     status |-> r.status]

\* check_availability: no two live bookings of a room overlap
Overlap(x, y) == x.start_time < y.end_time /\ x.end_time > y.start_time
Live(x) == x.status \in {"confirmed", "pending"}
NoConflict(bk) ==
    \A i \in DOMAIN bk : \A j \in DOMAIN bk :
        (i # j /\ bk[i].room_id = bk[j].room_id /\ Live(bk[i]) /\ Live(bk[j]))
            => ~Overlap(bk[i], bk[j])

\* instants around the edges of the access windows of the bookings
Offsets == {0 - TicksPerSec, -1, 0, 1, TicksPerSec}
TimePoints ==
    {FromTimestamp(bookings[b].start_time - OneHour) + o :
        b \in DOMAIN bookings, o \in Offsets}
    \cup {FromTimestamp(bookings[b].end_time) + o :
        b \in DOMAIN bookings, o \in Offsets}

InitDoor ==
    /\ now = 0
    /\ rooms \in {RoomIds, RoomIds \ {MaxRooms}}
    /\ \E n \in 0..MaxBookings : \E f \in [1..n -> BookingRows] :
          /\ bookings = [i \in 1..n |-> MkBooking(f[i])]
          /\ \A i \in 1..n : f[i].room_id \in rooms
    /\ NoConflict(bookings)
    /\ access = NoAccess
    /\ PoIdle
    /\ NtIdle

\* ------------------------------------------------------------- actions
\* the clock advances; a returned result is not kept across time
Tick ==
    /\ \E t \in TimePoints : t > now /\ now' = t
    /\ access' = NoAccess
    /\ ret' = NoRet
    /\ UNCHANGED <<rooms, bookings, po_running, po_jobs, po_call, po_tasks,
                   audit, po_scheduled>>
    /\ UNCHANGED ntVars
    /\ UNCHANGED tsVars

\* BookingService.validate_door_access(user_id, door_id)
DoorAccess(u, d) ==
    /\ \E res \in validate_door_access(u, d, now) :
          access' = [called |-> TRUE, user |-> u, door |-> d,
                     valid |-> res.valid, reason |-> res.reason,
                     booking |-> res.booking]
    /\ UNCHANGED <<now, rooms, bookings>>
    /\ UNCHANGED poVars
    /\ UNCHANGED ntVars
    /\ UNCHANGED tsVars

NextDoor ==
    \/ Tick
    \/ \E u \in UserIds, d \in RoomIds : DoorAccess(u, d)

SpecDoor == InitDoor /\ [][NextDoor]_vars

\* ------------------------------------------------- power-off: the executor
\* _control_relay_with_retry: attempts retry_count .. max_retries - 1, in
\* order, until one succeeds; relay[a] is the outcome of attempt a
Attempts(retry_count) == retry_count..(max_retries - 1)

Successes(retry_count, relay) == {a \in Attempts(retry_count) : relay[a]}

Min(S) == CHOOSE x \in S : \A y \in S : x <= y

\* the number of relay calls made
Contacts(retry_count, relay) ==
    IF Successes(retry_count, relay) = {}
    THEN Cardinality(Attempts(retry_count))
    ELSE Min(Successes(retry_count, relay)) - retry_count + 1

update_task_status_Noop(rows, b, r, status, at) == rows

\* _update_task_status: UPDATE power_off_tasks ... WHERE booking_id, room_id
update_task_status(rows, b, r, status, at) ==
    [k \in DOMAIN rows |->
        IF k = <<b, r>>
        THEN [rows[k] EXCEPT !.status = status, !.executed_at = at]
        ELSE rows[k]]

\* _log_power_off_operation: INSERT INTO power_off_audit_log
log_power_off_operation(log, b, r, result, detail) ==
    Append(log, [booking_id |-> b, room_id |-> r,
                 operation_type |-> "automatic_power_off",
                 result |-> result, detail |-> detail])

\* the statement of execute_power_off that raises: none, the room SELECT
\* ("lookup"), the UPDATE of power_off_tasks ("update"), the INSERT into
\* the audit log ("log"), or every statement ("db")
Faults == {"none", "lookup", "update", "log", "db"}

execute_power_off_NoRoomCheck(b, r, retry_count, relay, fault) ==
    IF Successes(retry_count, relay) # {}
    THEN [tasks |-> update_task_status(po_tasks, b, r, "completed", now),
          log |-> log_power_off_operation(audit, b, r, "success", retry_count),
          value |-> "true", contacts |-> Contacts(retry_count, relay)]
    ELSE [tasks |-> po_tasks,
          log |-> log_power_off_operation(audit, b, r, "failed", retry_count + 1),
          value |-> "false", contacts |-> Contacts(retry_count, relay)]

\* PowerOffService.execute_power_off(db, booking_id, room_id, retry_count)
execute_power_off(b, r, retry_count, relay, fault) ==
    IF fault \in {"lookup", "db"}
    THEN [tasks |-> po_tasks,
          log |-> IF fault = "db" THEN audit
                  ELSE log_power_off_operation(audit, b, r, "error", retry_count),
          value |-> "false", contacts |-> 0]
    ELSE IF r \notin rooms
    THEN [tasks |-> po_tasks, log |-> audit, value |-> "false", contacts |-> 0]
    ELSE IF Successes(retry_count, relay) # {}
    THEN [tasks |-> IF fault = "update" THEN po_tasks
                    ELSE update_task_status(po_tasks, b, r, "completed", now),
          log |-> IF fault = "log" THEN audit
                  ELSE log_power_off_operation(audit, b, r, "success", retry_count),
          value |-> "true",
          contacts |-> Contacts(retry_count, relay)]
    ELSE [tasks |-> po_tasks,
          log |-> IF fault = "log" THEN audit
                  ELSE log_power_off_operation(audit, b, r, "failed", retry_count + 1),
          value |-> "false",
          contacts |-> Contacts(retry_count, relay)]

RelayOutcomes == [0..(max_retries - 1) -> BOOLEAN]

\* the fault that was reached: the UPDATE runs only after a relay success,
\* the INSERT only when the room was found
Raised(r, retry_count, relay, fault) ==
    IF fault \in {"lookup", "db"} THEN fault
    ELSE IF r \notin rooms THEN "none"
    ELSE IF fault = "update" /\ Successes(retry_count, relay) = {} THEN "none"
    ELSE fault

ExecRet(b, r, retry_count, relay, fault, x) ==
    [NoRet EXCEPT !.op = "execute", !.booking_id = b, !.room_id = r,
        !.value = x.value, !.contacts = x.contacts,
        !.rows = Len(x.log) - Len(audit),
        !.all_failed = (/\ fault \notin {"lookup", "db"}
                        /\ r \in rooms
                        /\ Successes(retry_count, relay) = {}),
        !.fault = Raised(r, retry_count, relay, fault)]

Due(j) == FromTimestamp(j.run_at) <= now
Missed(j) == FromTimestamp(j.run_at + misfire_grace_time) < now

\* the date trigger of job j fires: the job leaves the store and
\* TaskScheduler._execute_power_off(booking_id, room_id) runs
FirePowerOff(j) ==
    /\ po_running /\ j \in po_jobs
    /\ Due(j) /\ ~Missed(j)
    /\ Len(audit) < MaxAudit
    /\ po_jobs' = po_jobs \ {j}
    /\ \E relay \in RelayOutcomes, fault \in Faults :
          LET x == execute_power_off(j.booking_id, j.room_id, 0, relay, fault)
          IN /\ po_tasks' = x.tasks
             /\ audit' = x.log
             /\ ret' = ExecRet(j.booking_id, j.room_id, 0, relay, fault, x)
    /\ UNCHANGED <<now, rooms, bookings, access, po_running, po_call,
                   po_scheduled>>
    /\ UNCHANGED ntVars
    /\ UNCHANGED tsVars

\* a job found later than misfire_grace_time after its run time is dropped
\* without being run
MisfirePowerOff(j) ==
    /\ po_running /\ j \in po_jobs
    /\ Missed(j)
    /\ po_jobs' = po_jobs \ {j}
    /\ ret' = NoRet
    /\ UNCHANGED <<now, rooms, bookings, access, po_running, po_call,
                   po_tasks, audit, po_scheduled>>
    /\ UNCHANGED ntVars
    /\ UNCHANGED tsVars

\* ------------------------------------------------------ power-off: Init/Next
RunTimes == {SlotStart(k) + SlotLen + PowerOffBuffer : k \in Slots}

PowerTimePoints ==
    {FromTimestamp(t) : t \in RunTimes}
    \cup {FromTimestamp(t + misfire_grace_time) + 1 : t \in RunTimes}

\* rows of power_off_tasks are inserted outside this code base
InitPower ==
    /\ now = 0
    /\ rooms \in {RoomIds, RoomIds \ {MaxRooms}}
    /\ \E st \in {"confirmed", "cancelled"} :
          bookings = [b \in {1} |->
                        MkBooking([user_id |-> 1, room_id |-> 1, slot |-> 0,
                                   status |-> st])]
    /\ access = NoAccess
    /\ po_running = FALSE
    /\ po_jobs = {}
    /\ po_call = NoCall
    /\ \E K \in {{}, {1} \X RoomIds} :
          po_tasks = [k \in K |-> [status |-> "pending", executed_at |-> -1]]
    /\ audit = <<>>
    /\ ret = NoRet
    /\ po_scheduled = {}
    /\ NtIdle

\* the clock advances; a started scheduler lets no due job wait
TickPower ==
    /\ ~(po_running /\ \E j \in po_jobs : Due(j))
    /\ \E t \in PowerTimePoints : t > now /\ now' = t
    /\ ret' = NoRet
    /\ UNCHANGED <<rooms, bookings, access, po_running, po_jobs, po_call,
                   po_tasks, audit, po_scheduled>>
    /\ UNCHANGED ntVars
    /\ UNCHANGED tsVars

NextPower ==
    \/ TickPower
    \/ PO_Start
    \/ \E b \in DOMAIN bookings, r \in RoomIds, t \in RunTimes :
          ScheduleGet(b, r, t)
    \/ ScheduleRemove
    \/ ScheduleAdd
    \/ \E b \in DOMAIN bookings, r \in RoomIds : CancelGet(b, r)
    \/ CancelFinish
    \/ \E j \in po_jobs : FirePowerOff(j)
    \/ \E j \in po_jobs : MisfirePowerOff(j)

SpecPower == InitPower /\ [][NextPower]_vars

\* --------------------------------------------------------- door-open handler
\* booking_info['end_time'] on the Booking instance that validate_door_access
\* returned: the ORM class defines no __getitem__
BookingSubscript(b, field) == "TypeError"

\* the except clauses of open_door: httpx.HTTPError answers 502, every other
\* exception raised inside the try block, HTTPException included, answers 500
HandlerStatus(exc) == IF exc = "httpx.HTTPError" THEN "502" ELSE "500"

OpenRet(u, d, res, relay_ok, status) ==
    [NoRet EXCEPT !.op = "open_door", !.booking_id = res.booking,
                  !.room_id = d, !.value = status, !.valid = res.valid,
                  !.relay_ok = relay_ok]

\* rooms.open_door for user u and door d; relay_ok is whether the relay
\* service would answer the POST with 2xx and a well-formed body
OpenDoor(u, d, relay_ok) ==
    /\ po_call = NoCall
    /\ \E res \in validate_door_access(u, d, now) :
          IF ~res.valid
          THEN /\ ret' = OpenRet(u, d, res, relay_ok, HandlerStatus("HTTPException"))
               /\ UNCHANGED <<po_jobs, po_scheduled>>
          ELSE IF BookingSubscript(res.booking, "end_time") = "TypeError"
          THEN /\ ret' = OpenRet(u, d, res, relay_ok, HandlerStatus("TypeError"))
               /\ UNCHANGED <<po_jobs, po_scheduled>>
          ELSE /\ po_jobs' = add_job(po_jobs \ get_job(po_jobs, res.booking, d),
                                     po_running,
                                     Job(res.booking, d,
                                         bookings[res.booking].end_time
                                            + PowerOffBuffer))
               /\ po_scheduled' = po_scheduled \cup {<<res.booking, d>>}
               /\ ret' = OpenRet(u, d, res, relay_ok,
                                 IF relay_ok THEN "200"
                                 ELSE HandlerStatus("httpx.HTTPError"))
    /\ access' = NoAccess
    /\ UNCHANGED <<now, rooms, bookings, po_running, po_call, po_tasks, audit>>
    /\ UNCHANGED ntVars
    /\ UNCHANGED tsVars

NextOpen ==
    \/ Tick
    \/ PO_Start
    \/ \E u \in UserIds, d \in RoomIds, relay_ok \in BOOLEAN :
          OpenDoor(u, d, relay_ok)

SpecOpen == InitDoor /\ [][NextOpen]_vars

\* ------------------------------------------------------------ notifications
NotificationTypeEnum == {"booking_reminder", "booking_expired", "booking_cancelled"}

\* NotificationService.create_notification: the row inserted
NewNotification(b, u, type, maxr) ==
    [booking_id |-> b, user_id |-> u, notification_type |-> type,
     status |-> "pending", max_retries |-> maxr, retry_count |-> 0,
     send_time |-> -1, is_deleted |-> FALSE, created_at |-> now]

\* _mark_notification_failed: count the failure; retry while under the limit
mark_notification_failed_Sticky(n) ==
    [n EXCEPT !.retry_count = n.retry_count + 1, !.status = "failed"]

mark_notification_failed(n) ==
    [n EXCEPT !.retry_count = n.retry_count + 1,
              !.status = IF n.retry_count + 1 < n.max_retries
                         THEN "retry" ELSE "failed"]

\* _send_booking_reminder / _send_booking_expired / _send_booking_cancelled:
\* False when the booking row is missing, else the message is handed over
Deliver(n) == n.booking_id \in DOMAIN bookings

\* NotificationService.send_notification on the row n it found; fault says
\* that a statement inside the try block raised
SendOutcome(n, fault) ==
    IF fault THEN "failed"
    ELSE IF n.user_id \notin users THEN "failed"
    ELSE IF n.notification_type \notin NotificationTypeEnum THEN "failed"
    ELSE IF Deliver(n) THEN "sent"
    ELSE "failed"

SendRow_StampAlways(n, fault) ==
    IF SendOutcome(n, fault) = "sent"
    THEN [n EXCEPT !.status = "sent", !.send_time = now]
    ELSE [mark_notification_failed(n) EXCEPT !.send_time = now]

SendRow(n, fault) ==
    IF SendOutcome(n, fault) = "sent"
    THEN [n EXCEPT !.status = "sent", !.send_time = now]
    ELSE mark_notification_failed(n)

\* send_notification looks the row up by id among the non-deleted rows
Found(id) == id \in DOMAIN notifications /\ ~notifications[id].is_deleted

NoteHist(h, outcome) ==
    IF outcome = "sent" THEN [h EXCEPT !.succ = h.succ + 1]
    ELSE [h EXCEPT !.fails = h.fails + 1]

\* deliveries attempted so far, over all notifications
RECURSIVE SumAttempts(_, _)
SumAttempts(h, n) ==
    IF n = 0 THEN 0 ELSE h[n].fails + h[n].succ + SumAttempts(h, n - 1)

Attempted == SumAttempts(nhist, Len(nhist))

\* NotificationService.create_notification(booking_id, user_id, type, ...)
CreateNotification(b, u, type, maxr) ==
    /\ Len(notifications) < MaxNotifications
    /\ notifications' = Append(notifications, NewNotification(b, u, type, maxr))
    /\ nhist' = Append(nhist, [fails |-> 0, succ |-> 0])
    /\ ret' = [NoRet EXCEPT !.op = "create_notification",
                            !.booking_id = Len(notifications) + 1]
    /\ UNCHANGED <<now, rooms, bookings, access, users>>
    /\ UNCHANGED <<po_running, po_jobs, po_call, po_tasks, audit, po_scheduled>>
    /\ UNCHANGED tsVars

\* NotificationService.send_notification(notification_id)
SendNotification(id, fault) ==
    /\ IF Found(id)
       THEN /\ Attempted + 1 <= MaxAttempts
            /\ notifications' =
                  [notifications EXCEPT ![id] = SendRow(notifications[id], fault)]
            /\ nhist' = [nhist EXCEPT
                  ![id] = NoteHist(nhist[id], SendOutcome(notifications[id], fault))]
            /\ ret' = [NoRet EXCEPT !.op = "send_notification", !.booking_id = id,
                          !.value = IF SendOutcome(notifications[id], fault) = "sent"
                                    THEN "true" ELSE "false"]
       ELSE /\ ~fault
            /\ UNCHANGED <<notifications, nhist>>
            /\ ret' = [NoRet EXCEPT !.op = "send_notification", !.booking_id = id,
                                    !.value = "false"]
    /\ UNCHANGED <<now, rooms, bookings, access, users>>
    /\ UNCHANGED <<po_running, po_jobs, po_call, po_tasks, audit, po_scheduled>>
    /\ UNCHANGED tsVars

\* get_pending_notifications(limit=50) as _process_pending_notifications
\* calls it
DispatchLimit == 50

PendingCandidates_WithFailed ==
    {id \in DOMAIN notifications :
        /\ notifications[id].status \in {"pending", "retry", "failed"}
        /\ ~notifications[id].is_deleted}

\* the filter of get_pending_notifications: pending or retry, not deleted,
\* retries left (or none used yet)
PendingCandidates ==
    {id \in DOMAIN notifications :
        /\ notifications[id].status \in {"pending", "retry"}
        /\ ~notifications[id].is_deleted
        /\ \/ notifications[id].retry_count < notifications[id].max_retries
           \/ notifications[id].retry_count = 0}

\* order_by(created_at): the candidates sorted before id (rows of one instant
\* in insertion order)
SortedBefore(id) ==
    {x \in PendingCandidates :
        \/ notifications[x].created_at < notifications[id].created_at
        \/ /\ notifications[x].created_at = notifications[id].created_at
           /\ x < id}

\* get_pending_notifications(limit): the first limit candidates
get_pending_notifications(limit) ==
    {id \in PendingCandidates : Cardinality(SortedBefore(id)) < limit}

PendingNotifications == get_pending_notifications(DispatchLimit)

\* _process_pending_notifications, the one-minute job of the running service:
\* send_notification on every selected row; F are the rows whose send raises
ProcessPendingNotifications(F) ==
    /\ ts_up
    /\ F \subseteq PendingNotifications
    /\ Attempted + Cardinality(PendingNotifications) <= MaxAttempts
    /\ notifications' =
          [id \in DOMAIN notifications |->
              IF id \in PendingNotifications
              THEN SendRow(notifications[id], id \in F)
              ELSE notifications[id]]
    /\ nhist' =
          [id \in DOMAIN notifications |->
              IF id \in PendingNotifications
              THEN NoteHist(nhist[id], SendOutcome(notifications[id], id \in F))
              ELSE nhist[id]]
    /\ ret' = [NoRet EXCEPT !.op = "process_pending",
                  !.count = Cardinality({id \in PendingNotifications :
                               SendOutcome(notifications[id], id \in F) = "sent"})]
    /\ UNCHANGED <<now, rooms, bookings, access, users>>
    /\ UNCHANGED <<po_running, po_jobs, po_call, po_tasks, audit, po_scheduled>>
    /\ UNCHANGED tsVars

RetrySelected_IgnoreLimit ==
    {id \in DOMAIN notifications :
        /\ notifications[id].status = "failed"
        /\ ~notifications[id].is_deleted}

\* retry_failed_notifications: failed rows with retries left go back to retry
RetrySelected ==
    {id \in DOMAIN notifications :
        /\ notifications[id].status = "failed"
        /\ notifications[id].retry_count < notifications[id].max_retries
        /\ ~notifications[id].is_deleted}

RetryFailedNotifications ==
    /\ notifications' =
          [id \in DOMAIN notifications |->
              IF id \in RetrySelected
              THEN [notifications[id] EXCEPT !.status = "retry"]
              ELSE notifications[id]]
    /\ ret' = [NoRet EXCEPT !.op = "retry_failed",
                            !.count = Cardinality(RetrySelected)]
    /\ UNCHANGED <<now, rooms, bookings, access, users, nhist>>
    /\ UNCHANGED <<po_running, po_jobs, po_call, po_tasks, audit, po_scheduled>>
    /\ UNCHANGED tsVars

\* cleanup_old_notifications(days): cutoff_date = now - timedelta(days)
Cutoff(days) == now - days * FromTimestamp(SecondsPerDay)

CleanupSelectedInclusive(days) ==
    {id \in DOMAIN notifications :
        /\ notifications[id].created_at <= Cutoff(days)
        /\ ~notifications[id].is_deleted}

CleanupSelected(days) ==
    {id \in DOMAIN notifications :
        /\ notifications[id].created_at < Cutoff(days)
        /\ ~notifications[id].is_deleted}

CleanupOldNotifications(days) ==
    /\ notifications' =
          [id \in DOMAIN notifications |->
              IF id \in CleanupSelected(days)
              THEN [notifications[id] EXCEPT !.is_deleted = TRUE]
              ELSE notifications[id]]
    /\ ret' = [NoRet EXCEPT !.op = "cleanup", !.arg = days,
                            !.count = Cardinality(CleanupSelected(days))]
    /\ UNCHANGED <<now, rooms, bookings, access, users, nhist>>
    /\ UNCHANGED <<po_running, po_jobs, po_call, po_tasks, audit, po_scheduled>>
    /\ UNCHANGED tsVars

CleanupDays == {1, 2}

NotifyClock == {0, FromTimestamp(SecondsPerDay), FromTimestamp(SecondsPerDay) + 1}

TickNotify ==
    /\ \E t \in NotifyClock : t > now /\ now' = t
    /\ ret' = NoRet
    /\ UNCHANGED <<rooms, bookings, access>>
    /\ UNCHANGED <<po_running, po_jobs, po_call, po_tasks, audit, po_scheduled>>
    /\ UNCHANGED ntVars
    /\ UNCHANGED tsVars

InitNotify ==
    /\ now = 0
    /\ rooms = RoomIds
    /\ bookings \in {<<>>,
                     <<MkBooking([user_id |-> 1, room_id |-> 1, slot |-> 0,
                                  status |-> "confirmed"])>>}
    /\ access = NoAccess
    /\ PoIdle
    /\ users \in {UserIds, UserIds \ {MaxUsers}}
    /\ notifications = <<>>
    /\ nhist = <<>>
    /\ tasks = <<>>
    /\ ts_up = TRUE
    /\ ts_jobs = {}
    /\ runs = <<>>
    /\ ts_active = {}
    /\ peer_up = FALSE
    /\ peer_jobs = {}

NextNotify ==
    \/ \E u \in UserIds, type \in {"booking_reminder", "sms"},
          maxr \in 0..MaxMaxRetries : CreateNotification(1, u, type, maxr)
    \/ \E id \in 1..(MaxNotifications + 1), fault \in BOOLEAN :
          SendNotification(id, fault)
    \/ \E F \in SUBSET DOMAIN notifications : ProcessPendingNotifications(F)
    \/ RetryFailedNotifications

SpecNotify == InitNotify /\ [][NextNotify]_vars

\* the same service over days, with notifications of the default retry limit
NextCleanup ==
    \/ \E u \in UserIds, type \in {"booking_reminder", "sms"} :
          CreateNotification(1, u, type, DefaultMaxRetries)
    \/ \E id \in 1..(MaxNotifications + 1), fault \in BOOLEAN :
          SendNotification(id, fault)
    \/ \E F \in SUBSET DOMAIN notifications : ProcessPendingNotifications(F)
    \/ RetryFailedNotifications
    \/ \E days \in CleanupDays : CleanupOldNotifications(days)
    \/ TickNotify

SpecCleanup == InitNotify /\ [][NextCleanup]_vars

\* retry_failed_notifications as a function of the table: the rows it is
\* applied to range over every status, retry_count and max_retries up to
\* SweepRetries, deleted or not
SweepRetries == 2

NotificationStatusEnum == {"pending", "sent", "failed", "retry"}

StoredNotifications ==
    [booking_id : {1}, user_id : {1}, notification_type : {"booking_reminder"},
     status : NotificationStatusEnum, max_retries : 0..SweepRetries,
     retry_count : 0..SweepRetries, send_time : {-1}, is_deleted : BOOLEAN,
     created_at : {0}]

InitSweep ==
    /\ now = 0
    /\ rooms = RoomIds
    /\ bookings = <<MkBooking([user_id |-> 1, room_id |-> 1, slot |-> 0,
                                status |-> "confirmed"])>>
    /\ access = NoAccess
    /\ PoIdle
    /\ users = UserIds
    /\ \E r1 \in StoredNotifications, r2 \in StoredNotifications :
          notifications = <<r1, r2>>
    /\ nhist = <<[fails |-> 0, succ |-> 0], [fails |-> 0, succ |-> 0]>>
    /\ tasks = <<>>
    /\ ts_up = TRUE
    /\ ts_jobs = {}
    /\ runs = <<>>
    /\ ts_active = {}
    /\ peer_up = FALSE
    /\ peer_jobs = {}

NextSweep == RetryFailedNotifications

SpecSweep == InitSweep /\ [][NextSweep]_vars

\* ------------------------------------------------- reminder task scheduler
TaskId_PerBooking(b, t) == <<"booking_reminder", b, 0>>

\* reminder_time.strftime('%Y%m%d%H%M%S') keeps whole seconds
TaskId(b, t) == <<"booking_reminder", b, IntTimestamp(t)>>

NewTask(b, t) ==
    [task_id |-> TaskId(b, t), task_type |-> "booking_reminder",
     related_id |-> b, scheduled_time |-> t, status |-> "pending",
     is_deleted |-> FALSE]

TsJob(id, row) == [id |-> tasks[row].task_id, row |-> row,
                   run_at |-> tasks[row].scheduled_time]

\* add_job(..., replace_existing=True) on the running scheduler
ts_add_job(jobs, j) == {x \in jobs : x.id # j.id} \cup {j}

\* the rows _restore_pending_tasks selects
Restorable(row) ==
    /\ tasks[row].status \in {"pending", "failed"}
    /\ tasks[row].scheduled_time > now
    /\ ~tasks[row].is_deleted

\* the types _restore_pending_tasks re-arms
RestoredTypes == {"booking_reminder"}

\* the jobs _restore_pending_tasks adds to the scheduler of its instance
RestoredJobs ==
    {TsJob(tasks[row].task_id, row) :
        row \in {x \in DOMAIN tasks : /\ Restorable(x)
                                      /\ tasks[x].task_type \in RestoredTypes}}

\* startup_event: TaskSchedulerService(db).start(), which starts the
\* scheduler and then runs _restore_pending_tasks
TS_Start ==
    /\ ~ts_up
    /\ ts_up' = TRUE
    /\ ts_jobs' = RestoredJobs
    /\ ret' = [NoRet EXCEPT !.op = "ts_start"]
    /\ UNCHANGED <<now, rooms, bookings, access, tasks, runs, ts_active>>
    /\ UNCHANGED peerVars
    /\ UNCHANGED poVarsNoRet
    /\ UNCHANGED ntVars

\* shutdown_event: stop(), which waits for running callbacks; the in-memory
\* job store goes with the process
TS_Stop ==
    /\ ts_up
    /\ ~\E c \in ts_active : c.inst = "startup"
    /\ ts_up' = FALSE
    /\ ts_jobs' = {}
    /\ ret' = [NoRet EXCEPT !.op = "ts_stop"]
    /\ UNCHANGED <<now, rooms, bookings, access, tasks, runs, ts_active>>
    /\ UNCHANGED peerVars
    /\ UNCHANGED poVarsNoRet
    /\ UNCHANGED ntVars

\* schedule_booking_reminder(booking_id, reminder_time) on the running
\* service; add_fails says that scheduler.add_job raised
ScheduleReminder(b, t, add_fails) ==
    /\ ts_up
    /\ IF b \notin DOMAIN bookings
       THEN /\ ~add_fails
            /\ ret' = [NoRet EXCEPT !.op = "schedule_reminder",
                                    !.booking_id = b, !.value = "false"]
            /\ UNCHANGED <<tasks, ts_jobs, runs>>
       ELSE IF \E row \in DOMAIN tasks : /\ tasks[row].task_id = TaskId(b, t)
                                         /\ ~tasks[row].is_deleted
       THEN /\ ~add_fails
            /\ ret' = [NoRet EXCEPT !.op = "schedule_reminder",
                                    !.booking_id = b, !.value = "true"]
            /\ UNCHANGED <<tasks, ts_jobs, runs>>
       ELSE /\ Len(tasks) < MaxTasks
            /\ runs' = Append(runs, 0)
            /\ IF add_fails
               THEN /\ tasks' = Append(tasks,
                                   [NewTask(b, t) EXCEPT !.status = "failed"])
                    /\ UNCHANGED ts_jobs
               ELSE /\ tasks' = Append(tasks, NewTask(b, t))
                    /\ ts_jobs' = ts_add_job(ts_jobs,
                                      [id |-> TaskId(b, t),
                                       row |-> Len(tasks) + 1, run_at |-> t])
            /\ ret' = [NoRet EXCEPT !.op = "schedule_reminder",
                          !.booking_id = b,
                          !.value = IF add_fails THEN "false" ELSE "true"]
    /\ UNCHANGED <<now, rooms, bookings, access, ts_up, ts_active>>
    /\ UNCHANGED peerVars
    /\ UNCHANGED poVarsNoRet
    /\ UNCHANGED ntVars

\* _send_booking_reminder(task row), first commit: the row is marked running
BeginReminder(inst, row) ==
    /\ tasks' = [tasks EXCEPT ![row].status = "running"]
    /\ runs' = [runs EXCEPT ![row] = @ + 1]
    /\ ts_active' = ts_active \cup
                       {[inst |-> inst, row |-> row, pc |-> "running", nid |-> 0]}
    /\ ret' = [NoRet EXCEPT !.op = "fire_reminder", !.booking_id = row]

\* the date trigger of job j fires: the job leaves the store and the
\* callback starts
FireReminder(j) ==
    /\ ts_up
    /\ j \in ts_jobs
    /\ j.run_at <= now
    /\ ts_jobs' = ts_jobs \ {j}
    /\ BeginReminder("startup", j.row)
    /\ UNCHANGED <<now, rooms, bookings, access, ts_up>>
    /\ UNCHANGED peerVars
    /\ UNCHANGED poVarsNoRet
    /\ UNCHANGED ntVars

BodyOutcome_NoSkip(row) ==
    IF tasks[row].related_id \notin DOMAIN bookings THEN "failed" ELSE "notify"

\* what the callback decides from the booking of the task
BodyOutcome(row) ==
    IF tasks[row].related_id \notin DOMAIN bookings THEN "failed"
    ELSE IF bookings[tasks[row].related_id].status \in {"cancelled", "completed"}
    THEN "skipped"
    ELSE "notify"

\* _send_booking_reminder, from the booking lookup to create_notification
ReminderBody(c) ==
    /\ c \in ts_active
    /\ c.pc = "running"
    /\ LET out == BodyOutcome(c.row)
           b == tasks[c.row].related_id
       IN IF out = "notify"
          THEN /\ Len(notifications) < MaxNotifications
               /\ notifications' = Append(notifications,
                     NewNotification(b, bookings[b].user_id, "booking_reminder",
                                     DefaultMaxRetries))
               /\ nhist' = Append(nhist, [fails |-> 0, succ |-> 0])
               /\ ts_active' = (ts_active \ {c}) \cup
                     {[c EXCEPT !.pc = "created",
                                !.nid = Len(notifications) + 1]}
               /\ ret' = [NoRet EXCEPT !.op = "reminder_body",
                                       !.booking_id = c.row, !.value = out]
               /\ UNCHANGED tasks
          ELSE /\ tasks' = [tasks EXCEPT ![c.row].status =
                               IF out = "failed" THEN "failed" ELSE "completed"]
               /\ ts_active' = ts_active \ {c}
               /\ ret' = [NoRet EXCEPT !.op = "reminder_body",
                                       !.booking_id = c.row, !.value = out]
               /\ UNCHANGED <<notifications, nhist>>
    /\ UNCHANGED <<now, rooms, bookings, access, users>>
    /\ UNCHANGED <<ts_up, ts_jobs, runs>>
    /\ UNCHANGED peerVars
    /\ UNCHANGED poVarsNoRet

\* _send_booking_reminder, send_notification and the final task status
ReminderSend(c, fault) ==
    /\ c \in ts_active
    /\ c.pc = "created"
    /\ LET sent == Found(c.nid) /\ SendOutcome(notifications[c.nid], fault) = "sent"
       IN /\ IF Found(c.nid)
             THEN /\ notifications' = [notifications EXCEPT
                                          ![c.nid] = SendRow(notifications[c.nid], fault)]
                  /\ nhist' = [nhist EXCEPT ![c.nid] =
                        NoteHist(nhist[c.nid], SendOutcome(notifications[c.nid], fault))]
             ELSE /\ ~fault
                  /\ UNCHANGED <<notifications, nhist>>
          /\ tasks' = [tasks EXCEPT ![c.row].status =
                          IF sent THEN "completed" ELSE "failed"]
          /\ ret' = [NoRet EXCEPT !.op = "reminder_send", !.booking_id = c.row,
                        !.value = IF sent THEN "completed" ELSE "failed"]
    /\ ts_active' = ts_active \ {c}
    /\ UNCHANGED <<now, rooms, bookings, access, users>>
    /\ UNCHANGED <<ts_up, ts_jobs, runs>>
    /\ UNCHANGED peerVars
    /\ UNCHANGED poVarsNoRet

\* the row a task_id names (task_id is unique), 0 when no row has it
RowOf(tid) ==
    IF \E row \in DOMAIN tasks : tasks[row].task_id = tid /\ ~tasks[row].is_deleted
    THEN CHOOSE row \in DOMAIN tasks :
            tasks[row].task_id = tid /\ ~tasks[row].is_deleted
    ELSE 0

CancelTask_NoLookupError(tid, inst) ==
    /\ ts_up
    /\ LET rows == {row \in DOMAIN tasks : /\ tasks[row].task_id = tid
                                           /\ ~tasks[row].is_deleted}
       IN /\ ts_jobs' = {j \in ts_jobs : j.id # tid}
          /\ tasks' = [row \in DOMAIN tasks |->
                          IF row \in rows
                          THEN [tasks[row] EXCEPT !.status = "cancelled"]
                          ELSE tasks[row]]
          /\ ret' = [NoRet EXCEPT !.op = "cancel_task",
                        !.arg = RowOf(tid),
                        !.value = IF rows # {} THEN "true" ELSE "false"]
    /\ UNCHANGED <<now, rooms, bookings, access, ts_up, runs, ts_active>>
    /\ UNCHANGED peerVars
    /\ UNCHANGED poVarsNoRet
    /\ UNCHANGED ntVars

\* cancel_task(task_id) on the service started at startup (inst = "startup")
\* or on the TaskSchedulerService(db) the router builds for the request,
\* whose scheduler is not started and holds none of the armed jobs
CancelTask(tid, inst) ==
    /\ ts_up
    /\ LET armed == IF inst = "startup" THEN {j \in ts_jobs : j.id = tid} ELSE {}
           rows == {row \in DOMAIN tasks : /\ tasks[row].task_id = tid
                                           /\ ~tasks[row].is_deleted}
       IN IF armed = {}
          THEN /\ UNCHANGED <<tasks, ts_jobs>>
               /\ ret' = [NoRet EXCEPT !.op = "cancel_task",
                             !.arg = RowOf(tid), !.value = "false"]
          ELSE /\ ts_jobs' = ts_jobs \ armed
               /\ tasks' = [row \in DOMAIN tasks |->
                               IF row \in rows
                               THEN [tasks[row] EXCEPT !.status = "cancelled"]
                               ELSE tasks[row]]
               /\ ret' = [NoRet EXCEPT !.op = "cancel_task",
                             !.arg = RowOf(tid),
                             !.value = IF rows # {} THEN "true" ELSE "false"]
    /\ UNCHANGED <<now, rooms, bookings, access, ts_up, runs, ts_active>>
    /\ UNCHANGED peerVars
    /\ UNCHANGED poVarsNoRet
    /\ UNCHANGED ntVars

ReminderTimes == {FromTimestamp(OneHour), FromTimestamp(OneHour) + 1,
                  FromTimestamp(OneHour + 1)}

ReminderClock == {FromTimestamp(OneHour) - 1, FromTimestamp(OneHour),
                  FromTimestamp(OneHour) + 1, FromTimestamp(OneHour + 1),
                  FromTimestamp(OneHour + 1) + 1}

\* the clock advances; a running scheduler lets no due job wait and a
\* callback takes no time
TickReminder ==
    /\ ~(ts_up /\ \E j \in ts_jobs : j.run_at <= now)
    /\ ~(peer_up /\ \E j \in peer_jobs : j.run_at <= now)
    /\ ts_active = {}
    /\ \E t \in ReminderClock : t > now /\ now' = t
    /\ ret' = NoRet
    /\ UNCHANGED <<rooms, bookings, access>>
    /\ UNCHANGED poVarsNoRet
    /\ UNCHANGED ntVars
    /\ UNCHANGED tsVars

\* rows of scheduled_tasks written before this process came up
StoredTasks ==
    {<<>>} \cup
    {<<[task_id |-> <<"power_off", 1, IntTimestamp(t)>>, task_type |-> "power_off",
        related_id |-> 1, scheduled_time |-> t, status |-> "pending",
        is_deleted |-> FALSE]>> : t \in {FromTimestamp(OneHour + 1)}}

InitReminder ==
    /\ now = 0
    /\ rooms = RoomIds
    /\ \E st \in BookingStatusEnum :
          bookings = <<MkBooking([user_id |-> 1, room_id |-> 1, slot |-> 0,
                                  status |-> st])>>
    /\ access = NoAccess
    /\ PoIdle
    /\ users = UserIds
    /\ notifications = <<>>
    /\ nhist = <<>>
    /\ tasks \in StoredTasks
    /\ runs = [row \in DOMAIN tasks |-> 0]
    /\ ts_up = FALSE
    /\ ts_jobs = {}
    /\ ts_active = {}
    /\ peer_up = FALSE
    /\ peer_jobs = {}

\* the task ids a caller may name: those of the stored rows and one of no row
TaskIds == {tasks[row].task_id : row \in DOMAIN tasks}
              \cup {<<"booking_reminder", 1, 0>>}

NextReminder ==
    \/ TickReminder
    \/ TS_Start
    \/ TS_Stop
    \/ \E b \in BookingIds, t \in ReminderTimes, add_fails \in BOOLEAN :
          ScheduleReminder(b, t, add_fails)
    \/ \E j \in ts_jobs : FireReminder(j)
    \/ \E c \in ts_active : ReminderBody(c)
    \/ \E c \in ts_active, fault \in BOOLEAN : ReminderSend(c, fault)
    \/ \E tid \in TaskIds, inst \in {"startup", "request"} : CancelTask(tid, inst)

SpecReminder == InitReminder /\ [][NextReminder]_vars

\* a second process of the application on the same database runs the same
\* startup_event
Peer_Start ==
    /\ ~peer_up
    /\ peer_up' = TRUE
    /\ peer_jobs' = RestoredJobs
    /\ ret' = [NoRet EXCEPT !.op = "peer_start"]
    /\ UNCHANGED <<now, rooms, bookings, access>>
    /\ UNCHANGED <<tasks, ts_up, ts_jobs, runs, ts_active>>
    /\ UNCHANGED poVarsNoRet
    /\ UNCHANGED ntVars

\* the date trigger of job j fires in the second process
PeerFire(j) ==
    /\ peer_up
    /\ j \in peer_jobs
    /\ j.run_at <= now
    /\ peer_jobs' = peer_jobs \ {j}
    /\ BeginReminder("peer", j.row)
    /\ UNCHANGED <<now, rooms, bookings, access, ts_up, ts_jobs, peer_up>>
    /\ UNCHANGED poVarsNoRet
    /\ UNCHANGED ntVars

NextPeer ==
    \/ NextReminder
    \/ Peer_Start
    \/ \E j \in peer_jobs : PeerFire(j)

SpecPeer == InitReminder /\ [][NextPeer]_vars

\* the started service: its date jobs and its one-minute dispatch job run on
\* the threads of one scheduler
NextRace ==
    \/ NextReminder
    \/ \E F \in SUBSET DOMAIN notifications : ProcessPendingNotifications(F)

SpecRace == InitReminder /\ [][NextRace]_vars

\* the process ends without shutdown_event (killed, or replaced by the
\* reloader): its scheduler, its job store and its running callbacks are
\* gone, the committed rows stay as they are
TS_Crash ==
    /\ ts_up
    /\ ts_up' = FALSE
    /\ ts_jobs' = {}
    /\ ts_active' = {c \in ts_active : c.inst # "startup"}
    /\ ret' = [NoRet EXCEPT !.op = "ts_crash"]
    /\ UNCHANGED <<now, rooms, bookings, access, tasks, runs>>
    /\ UNCHANGED peerVars
    /\ UNCHANGED poVarsNoRet
    /\ UNCHANGED ntVars

\* _send_booking_reminder, except branch: a statement after the RUNNING
\* commit raises and the status update of the handler raises as well; the
\* error is logged and the callback returns
ReminderAbort(c) ==
    /\ c \in ts_active
    /\ ts_active' = ts_active \ {c}
    /\ ret' = [NoRet EXCEPT !.op = "reminder_abort", !.booking_id = c.row]
    /\ UNCHANGED <<now, rooms, bookings, access, tasks, ts_up, ts_jobs, runs>>
    /\ UNCHANGED peerVars
    /\ UNCHANGED poVarsNoRet
    /\ UNCHANGED ntVars

\* a date job fires while the notification table of the model has room for
\* the row its callback may create
LiveFire(j) ==
    /\ Len(notifications) + Cardinality(ts_active) < MaxNotifications
    /\ FireReminder(j)

InitLive ==
    /\ InitReminder
    /\ bookings[1].status = "confirmed"
    /\ tasks = <<>>

CallbackStep ==
    \/ \E c \in ts_active : ReminderBody(c)
    \/ \E c \in ts_active, fault \in BOOLEAN : ReminderSend(c, fault)

DispatchStep ==
    \E F \in SUBSET DOMAIN notifications : ProcessPendingNotifications(F)

NextLive ==
    \/ TickReminder
    \/ TS_Start
    \/ TS_Stop
    \/ TS_Crash
    \/ \E b \in BookingIds, t \in ReminderTimes, add_fails \in BOOLEAN :
          ScheduleReminder(b, t, add_fails)
    \/ \E j \in ts_jobs : LiveFire(j)
    \/ CallbackStep
    \/ \E c \in ts_active : ReminderAbort(c)
    \/ DispatchStep

\* a callback that has started goes on unless its process ends; a process
\* that is down is started again; the one-minute job of a running service
\* keeps running
SpecLive ==
    /\ InitLive
    /\ [][NextLive]_vars
    /\ WF_vars(CallbackStep)
    /\ WF_vars(TS_Start)
    /\ SF_vars(DispatchStep)

\* ------------------------------------------------- door validator: claims
\* CONFIRMED bookings of user u for door d whose access window
\* [start_time - 1h, end_time] contains the instant t
InWindow(b, t) ==
    /\ FromTimestamp(bookings[b].start_time - OneHour) <= t
    /\ t <= FromTimestamp(bookings[b].end_time)

Entitling(u, d, t) ==
    {b \in DOMAIN bookings :
        /\ bookings[b].status = "confirmed"
        /\ bookings[b].user_id = u
        /\ bookings[b].room_id = d
        /\ InWindow(b, t)}

\* C1: for every CONFIRMED booking B of the user for the room door_id and
\* every now with B.start_time - 1h <= now <= B.end_time (bounds included),
\* validate_door_access(B.user_id, door_id) evaluated at now returns
\* valid=true (the claim adds: together with that booking; the formula states
\* the part every reading of the claim needs, that the answer is valid=true).
C1_ValidInsideWindow ==
    access.called =>
        \A b \in Entitling(access.user, access.door, now) : access.valid

\* C2: for every CONFIRMED booking B of the user for the requested room,
\* validate_door_access at now = B.start_time - 1h - 1s answers "too_early"
\* and at now = B.end_time + 1s answers "expired" (not "no_booking").
C2_EarlyAndExpiredReasons ==
    access.called =>
        \A b \in DOMAIN bookings :
            (/\ bookings[b].status = "confirmed"
             /\ bookings[b].user_id = access.user
             /\ bookings[b].room_id = access.door)
            => /\ (now = FromTimestamp(bookings[b].start_time - OneHour - 1)
                     => ~access.valid /\ access.reason = "too_early")
               /\ (now = FromTimestamp(bookings[b].end_time + 1)
                     => ~access.valid /\ access.reason = "expired")

\* C3: a user without a CONFIRMED booking for the requested room is answered
\* valid=false, reason "no_booking"; and no call of validate_door_access
\* changes any persisted state.
NoConfirmedBooking(u, d) ==
    \A b \in DOMAIN bookings :
        (bookings[b].user_id = u /\ bookings[b].room_id = d)
            => bookings[b].status # "confirmed"

C4_SecondScheduleWins ==
    [][/\ \A k \in JobKeys(po_jobs') :
             Cardinality(get_job(po_jobs', k[1], k[2])) = 1
       /\ (/\ po_call.op = "schedule" /\ po_call' = NoCall
           /\ \E j \in po_call.found : j.run_at # po_call.run_at)
             => get_job(po_jobs', po_call.booking_id, po_call.room_id)
                  = {Job(po_call.booking_id, po_call.room_id, po_call.run_at)}
      ]_vars

\* C5: cancel_power_off(booking_id, room_id) for a pair that was never
\* scheduled returns false and changes neither the armed jobs nor any
\* persisted task state; for a pair that is armed it returns true and the
\* job is no longer armed afterwards.
C5_CancelPowerOff ==
    [][(po_call.op = "cancel" /\ po_call' = NoCall) =>
          LET b == po_call.booking_id
              r == po_call.room_id
          IN /\ ret'.op = "cancel"
             /\ (<<b, r>> \notin po_scheduled
                   => /\ ret'.value = "false"
                      /\ UNCHANGED <<po_jobs, po_tasks, audit>>)
             /\ (get_job(po_jobs, b, r) # {}
                   => /\ ret'.value = "true"
                      /\ get_job(po_jobs', b, r) = {})
             /\ \A j \in po_jobs :
                   (j.booking_id # b \/ j.room_id # r) => j \in po_jobs'
      ]_vars

\* a cancel that returned true and removed its job while the job of another
\* id stayed armed
C5_Witness ==
    /\ ret.op = "cancel" /\ ret.value = "true"
    /\ <<ret.booking_id, ret.room_id>> \in po_scheduled
    /\ get_job(po_jobs, ret.booking_id, ret.room_id) = {}
    /\ po_jobs # {}

\* C6: when every relay call fails, execute_power_off (started with attempt
\* 0) contacts the relay exactly max_retries times, returns false, leaves the
\* PowerOffTask status equal to failed and has appended exactly max_retries
\* audit-log rows for that execution.
C6_RetriesExhausted ==
    (ret.op = "execute" /\ ret.all_failed) =>
        /\ ret.contacts = max_retries
        /\ ret.value = "false"
        /\ (<<ret.booking_id, ret.room_id>> \in DOMAIN po_tasks
              => po_tasks[<<ret.booking_id, ret.room_id>>].status = "failed")
        /\ ret.rows = max_retries

\* C7: when a power-off job fires for a booking whose status is cancelled at
\* fire time, the task goes directly to completed with a "skipped" result and
\* the relay transport is not contacted.
C7_CancelledBookingSkipped ==
    (/\ ret.op = "execute"
     /\ ret.booking_id \in DOMAIN bookings
     /\ bookings[ret.booking_id].status = "cancelled")
    => /\ ret.contacts = 0
       /\ ret.value = "skipped"
       /\ (<<ret.booking_id, ret.room_id>> \in DOMAIN po_tasks
             => po_tasks[<<ret.booking_id, ret.room_id>>].status = "completed")

\* C9: a door-open request of a user whose validation is valid, with the
\* relay answering, succeeds and leaves a power-off job for
\* (booking.id, door_id) armed with run time exactly
\* booking.end_time + 40 minutes; a denied request arms no power-off job.
C9_DoorOpenArmsPowerOff ==
    [][(ret'.op = "open_door" /\ ret' # ret) =>
          /\ (ret'.valid /\ ret'.relay_ok)
                => /\ ret'.value = "200"
                   /\ get_job(po_jobs', ret'.booking_id, ret'.room_id)
                        = {Job(ret'.booking_id, ret'.room_id,
                               bookings[ret'.booking_id].end_time + PowerOffBuffer)}
          /\ ~ret'.valid => po_jobs' = po_jobs
      ]_vars

\* ---------------------------------------------------- notifications: claims
\* C10: a notification with max_retries = N (N >= 1) whose delivery has
\* failed on each of its k send_notification attempts so far has status
\* retry and retry_count = k when k < N, and status failed and
\* retry_count = N when k = N.
C10_FailuresCountToFailed ==
    \A id \in DOMAIN notifications :
        LET n == notifications[id]
            k == nhist[id].fails
        IN (n.max_retries >= 1 /\ nhist[id].succ = 0 /\ k >= 1 /\ ~n.is_deleted)
           => /\ (k < n.max_retries => n.status = "retry" /\ n.retry_count = k)
              /\ (k = n.max_retries => n.status = "failed" /\ n.retry_count = k)

\* max_retries = 3 and three failed deliveries: failed, retry_count 3
C10_Witness ==
    \E id \in DOMAIN notifications :
        /\ notifications[id].max_retries = 3
        /\ nhist[id].fails = 3 /\ nhist[id].succ = 0
        /\ notifications[id].status = "failed"
        /\ notifications[id].retry_count = 3

\* ------------------------------------------------- reminder tasks: claims
\* C8: when the service starts again, every persisted task with status
\* pending and scheduled_time in the future, whatever its task type, has
\* exactly one armed job, and no task's callback has run more than once.
C8_RestartRearmsPending ==
    [][(~ts_up /\ ts_up') =>
          /\ \A row \in DOMAIN tasks' :
                (/\ tasks'[row].status = "pending"
                 /\ tasks'[row].scheduled_time > now'
                 /\ ~tasks'[row].is_deleted)
                => Cardinality({j \in ts_jobs' : j.row = row}) = 1
          /\ \A row \in DOMAIN runs' : runs'[row] <= 1 ]_vars

\* C11: cleanup_old_notifications(days) marks is_deleted exactly on the
\* non-deleted notifications created before now - days, removes no row,
\* leaves every other notification unchanged and returns the number it
\* marked; a soft-deleted notification is afterwards never changed by the
\* dispatch tick, the retry sweep or send_notification, which answers false.
C11_CleanupSoftDeletes ==
    [][/\ (ret'.op = "cleanup" /\ ret' # ret) =>
             /\ DOMAIN notifications' = DOMAIN notifications
             /\ \A id \in DOMAIN notifications :
                   IF /\ notifications[id].created_at < now - ret'.arg * FromTimestamp(SecondsPerDay)
                      /\ ~notifications[id].is_deleted
                   THEN notifications'[id] =
                           [notifications[id] EXCEPT !.is_deleted = TRUE]
                   ELSE notifications'[id] = notifications[id]
             /\ ret'.count = Cardinality({id \in DOMAIN notifications :
                                 /\ ~notifications[id].is_deleted
                                 /\ notifications'[id].is_deleted})
       /\ \A id \in DOMAIN notifications :
             notifications[id].is_deleted =>
                /\ notifications'[id] = notifications[id]
                /\ (ret'.op = "send_notification" /\ ret'.booking_id = id)
                      => ret'.value = "false" ]_vars

\* a cleanup that marked one old notification and kept a state where the
\* marked row is still stored
C11_Witness ==
    /\ ret.op = "cleanup" /\ ret.count = 1
    /\ \E id \in DOMAIN notifications :
          /\ notifications[id].is_deleted
          /\ notifications[id].created_at < now - ret.arg * FromTimestamp(SecondsPerDay)

\* C12: a notification in status retry has retry_count < max_retries, and
\* no notification has retry_count > max_retries.
C12_RetryCountBounded ==
    \A id \in DOMAIN notifications :
        /\ notifications[id].status = "retry"
              => notifications[id].retry_count < notifications[id].max_retries
        /\ notifications[id].retry_count <= notifications[id].max_retries

\* C13: cancel on a task that is pending and armed in the service started
\* at startup disarms it, sets its status to cancelled and returns true;
\* cancel on a task_id of no row, or of a row whose callback has already
\* started, returns false and changes no task status.
C13_CancelTask ==
    [][(ret'.op = "cancel_task" /\ ret' # ret) =>
          LET row == ret'.arg
          IN /\ (/\ row # 0
                 /\ tasks[row].status = "pending"
                 /\ \E j \in ts_jobs : j.row = row)
                => /\ ret'.value = "true"
                   /\ tasks'[row].status = "cancelled"
                   /\ ~\E j \in ts_jobs' : j.row = row
             /\ (row = 0 \/ (row # 0 /\ runs[row] >= 1))
                => /\ ret'.value = "false"
                   /\ \A x \in DOMAIN tasks : tasks'[x].status = tasks[x].status ]_vars

\* C14: when two service instances fire the same task, only the first
\* callback marks the row running and executes the body: a callback never
\* starts on a task whose callback has started before or is in progress.
C14_SingleRunner ==
    [][\A row \in DOMAIN tasks :
          runs'[row] > runs[row]
             => /\ runs[row] = 0
                /\ ~\E c \in ts_active : c.row = row ]_vars

\* C15: when the service starts, a pending booking-reminder task whose
\* scheduled_time passed while the process was down is not dropped: when
\* start() returns it is armed to fire or no longer pending.
C15_MissedNotDropped ==
    [][(~ts_up /\ ts_up') =>
          \A row \in DOMAIN tasks' :
             (/\ tasks'[row].task_type = "booking_reminder"
              /\ tasks'[row].status = "pending"
              /\ tasks'[row].scheduled_time <= now'
              /\ ~tasks'[row].is_deleted)
             => \E j \in ts_jobs' : j.row = row ]_vars

\* C16: execute_power_off always returns; when a statement of the room
\* lookup, the status update or the audit logging raised, it returns false;
\* when the room lookup raised, one audit-log row with result "error" is
\* appended; and the execution removes no armed job but its own.
C16_ExecuteNeverPropagates ==
    [][(ret'.op = "execute" /\ ret' # ret) =>
          /\ ret'.value \in {"true", "false"}
          /\ ret'.fault # "none" => ret'.value = "false"
          /\ ret'.fault \in {"lookup", "db"}
                => /\ Len(audit') = Len(audit) + 1
                   /\ audit'[Len(audit')].result = "error"
          /\ \A j \in po_jobs :
                (j.booking_id # ret'.booking_id \/ j.room_id # ret'.room_id)
                   => j \in po_jobs' ]_vars

\* C17: a door-open request answers 403 when the validation denies it,
\* 502 when the validation allows it and the relay service fails, and 200
\* when the validation allows it and the relay answers; a denied request is
\* never answered 502 or 500 and a relay failure is never answered 403.
C17_DoorOutcomeClasses ==
    [][(ret'.op = "open_door" /\ ret' # ret) =>
          /\ ~ret'.valid => ret'.value = "403"
          /\ (ret'.valid /\ ~ret'.relay_ok) => ret'.value = "502"
          /\ (ret'.valid /\ ret'.relay_ok) => ret'.value = "200" ]_vars

\* C18: when the room of a power-off execution does not exist,
\* execute_power_off returns false, has not contacted the relay and has
\* left every PowerOffTask as it was.
C18_RoomNotFound ==
    [][(ret'.op = "execute" /\ ret' # ret /\ ret'.room_id \notin rooms) =>
          /\ ret'.value = "false"
          /\ ret'.contacts = 0
          /\ po_tasks' = po_tasks ]_vars

\* an execution for a missing room, with a PowerOffTask row stored for it
C18_Witness ==
    /\ ret.op = "execute"
    /\ ret.room_id \notin rooms
    /\ ret.fault = "none"
    /\ ret.value = "false"
    /\ <<ret.booking_id, ret.room_id>> \in DOMAIN po_tasks

AllowedTaskSteps ==
    {<<"pending", "running">>, <<"running", "completed">>,
     <<"running", "failed">>, <<"pending", "cancelled">>}

C20_TaskLifecycle ==
    [][/\ \A row \in DOMAIN tasks :
             \/ tasks'[row].status = tasks[row].status
             \/ <<tasks[row].status, tasks'[row].status>> \in AllowedTaskSteps
       /\ \A row \in DOMAIN tasks' \ DOMAIN tasks :
             tasks'[row].status = "pending" ]_vars

\* C21: when the callback of a booking-reminder task reaches the booking
\* check and the booking is cancelled or completed, the task ends completed
\* as skipped and no notification is created or sent; for a booking of any
\* other status exactly one notification is created, for the booking's user,
\* and the rest of the callback creates no further one.
C21_SkipEndedBooking ==
    [][/\ \A c \in ts_active \ ts_active' :
             c.pc = "running" =>
                LET b == tasks[c.row].related_id
                IN IF b \notin DOMAIN bookings
                   THEN notifications' = notifications
                   ELSE IF bookings[b].status \in {"cancelled", "completed"}
                   THEN /\ tasks'[c.row].status = "completed"
                        /\ ret'.value = "skipped"
                        /\ notifications' = notifications
                        /\ nhist' = nhist
                        /\ ~\E d \in ts_active' : d.row = c.row
                   ELSE /\ Len(notifications') = Len(notifications) + 1
                        /\ notifications'[Len(notifications')].user_id
                              = bookings[b].user_id
                        /\ notifications'[Len(notifications')].booking_id = b
                        /\ SubSeq(notifications', 1, Len(notifications))
                              = notifications
       /\ \A c \in ts_active \ ts_active' :
             c.pc = "created" => Len(notifications') = Len(notifications) ]_vars

\* a reminder that fired for a cancelled booking and was skipped
C21_Witness ==
    /\ ret.op = "reminder_body" /\ ret.value = "skipped"
    /\ bookings[tasks[ret.booking_id].related_id].status = "cancelled"
    /\ tasks[ret.booking_id].status = "completed"
    /\ runs[ret.booking_id] = 1
    /\ notifications = <<>>

\* C22: a job is armed only for a persisted task: every power-off job that
\* enters the job store has a power_off_tasks row for its booking and room
\* with status pending, and every reminder job that enters the scheduler has
\* a non-deleted scheduled_tasks row of its task_id with status pending.
C22_PersistBeforeArm ==
    [][/\ \A j \in po_jobs' \ po_jobs :
             /\ <<j.booking_id, j.room_id>> \in DOMAIN po_tasks'
             /\ po_tasks'[<<j.booking_id, j.room_id>>].status = "pending"
       /\ \A j \in ts_jobs' \ ts_jobs :
             /\ j.row \in DOMAIN tasks'
             /\ tasks'[j.row].task_id = j.id
             /\ ~tasks'[j.row].is_deleted
             /\ tasks'[j.row].status = "pending" ]_vars

C25_RetrySweepFrame ==
    [][ret'.op = "retry_failed" =>
          LET S == {id \in DOMAIN notifications :
                       /\ ~notifications[id].is_deleted
                       /\ notifications[id].status = "failed"
                       /\ notifications[id].retry_count
                             < notifications[id].max_retries}
          IN /\ DOMAIN notifications' = DOMAIN notifications
             /\ \A id \in S :
                   notifications'[id] = [notifications[id] EXCEPT !.status = "retry"]
             /\ \A id \in DOMAIN notifications \ S :
                   notifications'[id] = notifications[id]
             /\ ret'.count = Cardinality(S)
             /\ nhist' = nhist ]_vars

\* a sweep that moved one failed row to retry and left an exhausted failed
\* row alone
C25_Witness ==
    /\ ret.op = "retry_failed" /\ ret.count = 1
    /\ Len(notifications) = 2
    /\ notifications[1].status = "retry" /\ ~notifications[1].is_deleted
    /\ notifications[1].retry_count = 1 /\ notifications[1].max_retries = 2
    /\ notifications[2].status = "failed" /\ ~notifications[2].is_deleted
    /\ notifications[2].retry_count = 2 /\ notifications[2].max_retries = 2

\* C26: not-found is terminal: a reminder callback whose booking is absent
\* ends the task failed at once, and a delivery attempt on a notification
\* whose user or booking is absent is the only attempt ever made on it and
\* leaves it failed, never retry.
C26_NotFoundTerminal ==
    [][/\ \A c \in ts_active \ ts_active' :
             c.pc = "running" /\ tasks[c.row].related_id \notin DOMAIN bookings
                => tasks'[c.row].status = "failed"
       /\ \A id \in DOMAIN notifications :
             /\ nhist'[id] # nhist[id]
             /\ \/ notifications[id].user_id \notin users
                \/ notifications[id].booking_id \notin DOMAIN bookings
             => /\ nhist[id].fails + nhist[id].succ = 0
                /\ notifications'[id].status = "failed" ]_vars

\* the contract of schedule_booking_reminder when two reminder times count
\* as the same time if they fall into the same interval of grain ticks
ScheduleContract(grain) ==
    /\ \A r1 \in DOMAIN tasks', r2 \in DOMAIN tasks' :
          /\ r1 # r2
          /\ ~tasks'[r1].is_deleted /\ ~tasks'[r2].is_deleted
          => tasks'[r1].task_id # tasks'[r2].task_id
    /\ \A row \in DOMAIN tasks :
          /\ row \in DOMAIN tasks'
          /\ tasks'[row].scheduled_time = tasks[row].scheduled_time
    /\ \A b \in BookingIds, t \in ReminderTimes, add_fails \in BOOLEAN :
          ScheduleReminder(b, t, add_fails) =>
             LET stored == \E row \in DOMAIN tasks :
                              /\ ~tasks[row].is_deleted
                              /\ tasks[row].task_type = "booking_reminder"
                              /\ tasks[row].related_id = b
                              /\ tasks[row].scheduled_time \div grain = t \div grain
             IN IF b \notin DOMAIN bookings
                THEN /\ ret'.value = "false"
                     /\ tasks' = tasks /\ ts_jobs' = ts_jobs
                ELSE IF stored
                THEN /\ ret'.value = "true"
                     /\ tasks' = tasks /\ ts_jobs' = ts_jobs
                ELSE /\ Len(tasks') = Len(tasks) + 1
                     /\ tasks'[Len(tasks')].related_id = b
                     /\ tasks'[Len(tasks')].scheduled_time = t
                     /\ \A row \in DOMAIN tasks :
                           tasks[row].task_id # tasks'[Len(tasks')].task_id

\* C27: over any sequence of schedule_booking_reminder calls no two
\* non-deleted task rows share a task_id and no row's scheduled_time changes;
\* a call for a booking that does not exist returns false and creates
\* nothing; a call repeating the (booking_id, reminder_time) of a stored row
\* returns true, creates no row and arms no job; a call with a reminder_time
\* no stored row of the booking has creates a new row with a new task_id.
C27_ScheduleIdempotent == [][ScheduleContract(1)]_vars

\* C27, amended: the same, with two reminder times of a booking counting as
\* the same reminder when they fall into the same whole second, and as
\* different only when their seconds differ.
C27_ScheduleIdempotentPerSecond == [][ScheduleContract(TicksPerSec)]_vars

\* a second reminder of the same booking, one second after the first, got a
\* row and a task_id of its own
C27_Witness ==
    /\ ret.op = "schedule_reminder" /\ ret.value = "true"
    /\ Len(tasks) = 2
    /\ tasks[1].task_type = "booking_reminder"
    /\ tasks[2].task_type = "booking_reminder"
    /\ tasks[1].related_id = tasks[2].related_id
    /\ tasks[1].scheduled_time # tasks[2].scheduled_time
    /\ tasks[1].task_id # tasks[2].task_id

\* what C28 states; direct says whether a send_notification call that names
\* the row itself counts among the attempts that must not happen
FailedIsFinal(direct) ==
    /\ \A id \in DOMAIN notifications' :
          notifications'[id].status = "failed" /\ ~notifications'[id].is_deleted
             => notifications'[id].retry_count >= notifications'[id].max_retries
    /\ ret'.op = "retry_failed"
          => ret'.count = 0 /\ notifications' = notifications
    /\ \A id \in DOMAIN notifications :
          /\ notifications[id].status = "failed"
          /\ ~notifications[id].is_deleted
          /\ direct \/ ret'.op # "send_notification"
          => nhist'[id] = nhist[id] /\ notifications'[id].status = "failed"

C29_DeliveredOnce ==
    [][\A id \in DOMAIN notifications' :
          /\ nhist'[id].succ <= 1
          /\ (notifications'[id].status = "sent")
                <=> (notifications'[id].send_time # -1)
          /\ id \in DOMAIN notifications /\ notifications[id].status = "sent"
                => /\ notifications'[id].status = "sent"
                   /\ nhist'[id] = nhist[id] ]_vars

\* C30: with the dispatch tick running again and again and every delivery
\* attempt returning, a non-deleted pending notification reaches sent or
\* failed, having been attempted fewer than max(1, max_retries) times while
\* it is still waiting; and a reminder task that is running reaches
\* completed or failed, also when the process is restarted meanwhile.
C30_EverythingEnds ==
    /\ [](\A id \in DOMAIN notifications :
             /\ notifications[id].status \in {"pending", "retry"}
             /\ ~notifications[id].is_deleted
             /\ nhist[id].succ = 0
             => nhist[id].fails < (IF notifications[id].max_retries > 1
                                   THEN notifications[id].max_retries ELSE 1))
    /\ \A id \in 1..MaxNotifications :
          (id \in DOMAIN notifications /\ notifications[id].status = "pending")
             ~> (/\ id \in DOMAIN notifications
                 /\ notifications[id].status \in {"sent", "failed"})
    /\ \A row \in 1..MaxTasks :
          (row \in DOMAIN tasks /\ tasks[row].status = "running")
             ~> (/\ row \in DOMAIN tasks
                 /\ tasks[row].status \in {"completed", "failed"})

====
